---- MODULE Spec2Model ----
(***************************************************************************)
(* Model of the Stockfighter client: the generic request pipeline           *)
(* PerformRequest, the ten endpoint operations built on it, and the four    *)
(* draft operations that call net/http directly.                            *)
(*                                                                          *)
(* The client is synchronous and keeps no state between calls, so a state   *)
(* of the model is the last call (operation, arguments, what the server     *)
(* and the transport did), what the call sent, what it returned, and the    *)
(* number of response bodies that calls have left open so far.              *)
(*                                                                          *)
(* URLs are modelled as sequences of path segments; fmt.Sprintf fills the   *)
(* verbs of a template, left to right, with its arguments in the order      *)
(* they are passed.  All URLs of the model are well formed, so              *)
(* http.NewRequest never fails.                                             *)
(***************************************************************************)
EXTENDS Integers, Sequences, FiniteSets, TLC

\* ------------------------------------------------------------------ bounds
MaxId == 1
MaxQty == 1
MaxOpenBodies == 2

\* ------------------------------------------------------------ input values
Venues == {"TESTEX", "OTHEREX"}
Stocks == {"FOOBAR", "ATEA"}
Accounts == {"ACC1", "ACC2"}
Ids == 1..MaxId
Quantities == 1..MaxQty

\* ------------------------------------------------------- program constants
MethodGet == "GET"
MethodPost == "POST"
MethodDelete == "DELETE"

BUY == "buy"
SELL == "sell"
Limit == "limit"

StatusOK == 200
Statuses == {StatusOK, 500}

HEARTBEAT_URL == <<"api", "heartbeat">>
VENUE_HEARTBEAT_URL == <<"api", "venues", "%s", "heartbeat">>
VENUE_STOCKS_URL == <<"api", "venues", "%s", "stocks">>
VENUE_ORDERBOOK_URL == <<"api", "venues", "%s", "stocks", "%s">>
VENUE_QUOTE_URL == <<"api", "venues", "%s", "stocks", "%s", "quote">>
VENUE_ORDERS_URL == <<"api", "venues", "%s", "stocks", "%s", "orders">>
VENUE_ORDER_URL == <<"api", "venues", "%s", "stocks", "%s", "orders", "%d">>
ACCT_EVERY_ORDERS_URL == <<"api", "venues", "%s", "accounts", "%s", "orders">>
ACCT_STOCK_ORDERS_URL == <<"api", "venues", "%s", "accounts", "%s", "stocks", "%s", "orders">>
DRAFT_VENUE_ORDERS_URL == <<"api", "venues", "%s", "stocks", "%s">>

\* ---------------------------------------------------------- pure functions
Digit(d) ==
  CASE d = 0 -> "0" [] d = 1 -> "1" [] d = 2 -> "2" [] d = 3 -> "3" [] d = 4 -> "4"
    [] d = 5 -> "5" [] d = 6 -> "6" [] d = 7 -> "7" [] d = 8 -> "8" [] d = 9 -> "9"

RECURSIVE Itoa(_)
Itoa(n) == IF n < 10 THEN Digit(n) ELSE Itoa(n \div 10) \o Digit(n % 10)

IsVerb(seg) == seg = "%s" \/ seg = "%d"

RECURSIVE Sprintf(_, _)
Sprintf(format, a) ==
  IF format = <<>> THEN <<>>
  ELSE IF IsVerb(Head(format)) /\ a # <<>>
       THEN <<Head(a)>> \o Sprintf(Tail(format), Tail(a))
       ELSE <<Head(format)>> \o Sprintf(Tail(format), a)

\* json.Marshal of an OrderRequest: the fields in declaration order under
\* their json names.
Marshal(order) ==
  << "account", order.account, "orderType", order.orderType,
     "direction", order.direction, "qty", Itoa(order.qty), "price", Itoa(order.price) >>

\* ------------------------------------------------------------- structures
\* The fields of the response structures that the operations read, and the
\* list they carry (symbols, orders).
ZeroStruct == [data |-> <<>>, ok |-> FALSE, open |-> FALSE, symbol |-> "", venue |-> ""]

Payload == <<"item">>

OrderRequests ==
  { [account |-> a, direction |-> d, orderType |-> Limit, price |-> q, qty |-> q] :
      a \in Accounts, d \in {BUY, SELL}, q \in Quantities }

NoOrder == [account |-> "", direction |-> "", orderType |-> "", price |-> 0, qty |-> 0]

NoArgs == [account |-> "", id |-> 0, order |-> NoOrder, stock |-> "", venue |-> ""]

\* The fields each response structure declares, among those the operations
\* read ("data" is the list it carries: symbols, orders).  The decoder drops
\* the fields of a JSON object that the target structure does not declare.
StatusResponse == {"ok"}
VenueStatusResponse == {"ok", "venue"}
VenueStocksResponse == {"ok", "data"}
OrderbookResponse == {"ok", "venue", "symbol"}
OrderResponse == {"ok", "venue", "open"}
OrdersStatusResponse == {"ok", "venue", "data"}
QuoteResponse == {"ok", "venue", "symbol"}
DraftStocksResponse == {"ok", "data"}
DraftOrderResponse == {"ok", "symbol"}

\* ----------------------------------------------------- the server's answer
\* kind: "object"      a JSON object with the fields below;
\*       "typeError"   a JSON object with the fields below and one more field
\*                     of the wrong type;
\*       "syntaxError" not JSON;
\*       "null"        the JSON literal null.
\* The objects are enumerated over the fields of the structure T they are
\* decoded into.
ObjectBodies(T) ==
  { [data |-> IF "data" \in T THEN Payload ELSE <<>>,
     kind |-> k, ok |-> o, open |-> p, symbol |-> s, venue |-> v] :
      k \in {"object", "typeError"},
      o \in BOOLEAN,
      v \in IF "venue" \in T THEN Venues ELSE {""},
      s \in IF "symbol" \in T THEN Stocks ELSE {""},
      p \in IF "open" \in T THEN BOOLEAN ELSE {FALSE} }

OtherBody(k) == [data |-> <<>>, kind |-> k, ok |-> FALSE, open |-> FALSE, symbol |-> "", venue |-> ""]

Bodies(T) == ObjectBodies(T) \cup {OtherBody("syntaxError"), OtherBody("null")}

\* transport: "ok"          the round trip completed, a response came back;
\*            "connErr"     the client returned an error and no response;
\*            "redirectErr" the client returned an error and a response whose
\*                          body it has already closed (a refused redirect).
\* status and body are what the response carries when there is an open one.
Envs(T) ==
  { [body |-> b, status |-> st, transport |-> "ok"] :
      st \in Statuses, b \in Bodies(T) }
  \cup { [body |-> OtherBody("syntaxError"), status |-> 0, transport |-> "connErr"],
         [body |-> OtherBody("syntaxError"), status |-> 0, transport |-> "redirectErr"] }

VARIABLES op, args, env, requests, result, openBodies

vars == <<op, args, env, requests, result, openBodies>>

\* ------------------------------------------------------------- net/http
\* A request that was sent, as the tuple <<verb, url, contentType, body>>.
Request(verb, url, contentType, body) == <<verb, url, contentType, body>>

Verb(req) == req[1]
Url(req) == req[2]
ContentType(req) == req[3]
Body(req) == req[4]

\* What a client call gives back: resp is "nil" or "resp", err is a boolean,
\* opened is 1 when the caller is handed a body it has to close.
Transport(e) ==
  [err |-> e.transport # "ok",
   opened |-> IF e.transport = "ok" THEN 1 ELSE 0,
   resp |-> IF e.transport = "connErr" THEN "nil" ELSE "resp"]

\* ------------------------------------------------------- encoding/json
\* Decoder.Decode into the structure s.  viaPtrPtr: the target is a pointer
\* to the caller's pointer (Decode(&s) with s a pointer), so that null sets
\* the caller's pointer to nil.
Populate(body) ==
  [data |-> body.data, ok |-> body.ok, open |-> body.open,
   symbol |-> body.symbol, venue |-> body.venue]

Decode(body, s, viaPtrPtr) ==
  CASE body.kind = "object" -> [err |-> FALSE, isNil |-> FALSE, s |-> Populate(body)]
    [] body.kind = "typeError" -> [err |-> TRUE, isNil |-> FALSE, s |-> Populate(body)]
    [] body.kind = "syntaxError" -> [err |-> TRUE, isNil |-> FALSE, s |-> s]
    [] body.kind = "null" -> [err |-> FALSE, isNil |-> viaPtrPtr, s |-> s]

\* ------------------------------------------------------------ results
\* tag: "true", "false" for the boolean operations; "nil", "ptr" (s is the
\* structure pointed to), "list" (s.data is the list) for the others;
\* "panic" when the call does not return (nil pointer dereference).
Ret(tag, s) == [s |-> s, tag |-> tag]

True == Ret("true", ZeroStruct)
False == Ret("false", ZeroStruct)
Nil == Ret("nil", ZeroStruct)
Panicked == Ret("panic", ZeroStruct)
Ptr(s) == Ret("ptr", s)
List(data) == IF data = <<>> THEN Nil ELSE Ret("list", [ZeroStruct EXCEPT !.data = data])

Outcome(res, reqs, leaked) == [leaked |-> leaked, requests |-> reqs, result |-> res]

\* ------------------------------------------------------- PerformRequest
HttpGet(url) == Request(MethodGet, url, <<>>, <<>>)

\* http.Post(url, contentType, body)
HttpPost(url, contentType, body) == Request(MethodPost, url, contentType, body)

\* http.NewRequest(method, url, nil) and http.DefaultClient.Do(req)
HttpDo(method, url) == Request(method, url, <<>>, <<>>)

\* defer resp.Body.Close(): the number of bodies the deferred call closes
\* when the function is left.
NoDeferredClose(opened) == 0

DeferredClose(opened) == opened

\* The deferred close is registered once the error check after the switch
\* has passed; the paths that leave before it close nothing.
\* The result of PerformRequest: panic (it did not return), err (the error
\* it returned), s and isNil (the caller's structure and whether the caller's
\* pointer to it was set to nil), the requests sent, the bodies left open.
PR(panic, err, s, isNil, reqs, leaked) ==
  [err |-> err, isNil |-> isNil, leaked |-> leaked, panic |-> panic, requests |-> reqs, s |-> s]

PerformRequest(url, method, body, e) ==
  LET t == Transport(e)
      d == Decode(e.body, ZeroStruct, TRUE)
      decoded(req) ==
        PR(FALSE, d.err, d.s, d.isNil, <<req>>, t.opened - DeferredClose(t.opened))
  IN CASE method = MethodGet ->
            IF t.err
            THEN IF t.resp = "nil"
                 THEN PR(TRUE, FALSE, ZeroStruct, FALSE, <<HttpGet(url)>>, t.opened)
                 ELSE PR(FALSE, TRUE, ZeroStruct, FALSE, <<HttpGet(url)>>, t.opened)
            ELSE decoded(HttpGet(url))
       [] method = MethodPost ->
            IF t.err
            THEN IF t.resp = "nil"
                 THEN PR(TRUE, FALSE, ZeroStruct, FALSE, <<HttpPost(url, body, <<>>)>>, t.opened)
                 ELSE PR(FALSE, TRUE, ZeroStruct, FALSE, <<HttpPost(url, body, <<>>)>>, t.opened)
            ELSE decoded(HttpPost(url, body, <<>>))
       [] method = MethodDelete ->
            IF t.err
            THEN PR(FALSE, TRUE, ZeroStruct, FALSE, <<HttpDo(method, url)>>, t.opened)
            ELSE decoded(HttpDo(method, url))
       [] OTHER -> PR(TRUE, FALSE, ZeroStruct, FALSE, <<>>, 0)

\* --------------------------------------- operations built on PerformRequest
\* What a caller does with a structure it reads after PerformRequest
\* returned no error: reading through a nil pointer panics.
PingNoOkCheck(e) ==
  LET r == PerformRequest(HEARTBEAT_URL, MethodGet, <<>>, e)
      res == IF r.panic THEN Panicked
             ELSE IF r.err THEN False
             ELSE IF r.isNil THEN Panicked
             ELSE True
  IN Outcome(res, r.requests, r.leaked)

Ping(e) ==
  LET r == PerformRequest(HEARTBEAT_URL, MethodGet, <<>>, e)
      res == IF r.panic THEN Panicked
             ELSE IF r.err THEN False
             ELSE IF r.isNil THEN Panicked
             ELSE IF r.s.ok # TRUE THEN False
             ELSE True
  IN Outcome(res, r.requests, r.leaked)

PingVenue(venue, e) ==
  LET r == PerformRequest(Sprintf(VENUE_HEARTBEAT_URL, <<venue>>), MethodGet, <<>>, e)
      res == IF r.panic THEN Panicked
             ELSE IF r.err THEN False
             ELSE IF r.isNil THEN Panicked
             ELSE IF r.s.ok # TRUE THEN False
             ELSE True
  IN Outcome(res, r.requests, r.leaked)

FetchStocks(venue, e) ==
  LET r == PerformRequest(Sprintf(VENUE_STOCKS_URL, <<venue>>), MethodGet, <<>>, e)
      res == IF r.panic THEN Panicked
             ELSE IF r.err THEN Nil
             ELSE IF r.isNil THEN Panicked
             ELSE IF r.s.ok # TRUE THEN Nil
             ELSE List(r.s.data)
  IN Outcome(res, r.requests, r.leaked)

FetchOrder(venue, stock, id, e) ==
  LET r == PerformRequest(Sprintf(VENUE_ORDER_URL, <<venue, stock, Itoa(id)>>), MethodGet, <<>>, e)
      res == IF r.panic THEN Panicked
             ELSE IF r.err THEN Nil
             ELSE IF r.isNil THEN Panicked
             ELSE IF r.s.ok # TRUE THEN Nil
             ELSE IF r.s.venue # venue THEN Nil
             ELSE Ptr(r.s)
  IN Outcome(res, r.requests, r.leaked)

FetchOrderbookNoSymbolCheck(venue, stock, e) ==
  LET r == PerformRequest(Sprintf(VENUE_ORDERBOOK_URL, <<venue, stock>>), MethodGet, <<>>, e)
      res == IF r.panic THEN Panicked
             ELSE IF r.err THEN Nil
             ELSE IF r.isNil THEN Panicked
             ELSE IF r.s.ok # TRUE THEN Nil
             ELSE IF r.s.venue # venue THEN Nil
             ELSE Ptr(r.s)
  IN Outcome(res, r.requests, r.leaked)

FetchOrderbook(venue, stock, e) ==
  LET r == PerformRequest(Sprintf(VENUE_ORDERBOOK_URL, <<venue, stock>>), MethodGet, <<>>, e)
      res == IF r.panic THEN Panicked
             ELSE IF r.err THEN Nil
             ELSE IF r.isNil THEN Panicked
             ELSE IF r.s.ok # TRUE THEN Nil
             ELSE IF r.s.venue # venue THEN Nil
             ELSE IF r.s.symbol # stock THEN Nil
             ELSE Ptr(r.s)
  IN Outcome(res, r.requests, r.leaked)

FetchAcctOrders(venue, account, e) ==
  LET r == PerformRequest(Sprintf(ACCT_EVERY_ORDERS_URL, <<account, venue>>), MethodGet, <<>>, e)
      res == IF r.panic THEN Panicked
             ELSE IF r.err THEN Nil
             ELSE IF r.isNil THEN Panicked
             ELSE IF r.s.ok # TRUE THEN Nil
             ELSE IF r.s.venue # venue THEN Nil
             ELSE List(r.s.data)
  IN Outcome(res, r.requests, r.leaked)

FetchAcctStockOrders(venue, stock, account, e) ==
  LET r == PerformRequest(Sprintf(ACCT_STOCK_ORDERS_URL, <<account, venue, stock>>), MethodGet, <<>>, e)
      res == IF r.panic THEN Panicked
             ELSE IF r.err THEN Nil
             ELSE IF r.isNil THEN Panicked
             ELSE IF r.s.ok # TRUE THEN Nil
             ELSE IF r.s.venue # venue THEN Nil
             ELSE List(r.s.data)
  IN Outcome(res, r.requests, r.leaked)

\* json.Marshal cannot fail on an OrderRequest (strings and ints only); the
\* error and the structure are not read after the request.
PlaceOrder(venue, stock, order, e) ==
  LET js == Marshal(order)
      r == PerformRequest(Sprintf(VENUE_ORDERS_URL, <<venue, stock>>), MethodPost, js, e)
      res == IF r.panic THEN Panicked ELSE Nil
  IN Outcome(res, r.requests, r.leaked)

FetchQuote(venue, stock, e) ==
  LET r == PerformRequest(Sprintf(VENUE_QUOTE_URL, <<venue, stock>>), MethodGet, <<>>, e)
      res == IF r.panic THEN Panicked
             ELSE IF r.err THEN Nil
             ELSE IF r.isNil THEN Panicked
             ELSE IF r.s.ok # TRUE THEN Nil
             ELSE Ptr(r.s)
  IN Outcome(res, r.requests, r.leaked)

CancelOrder(venue, stock, id, e) ==
  LET r == PerformRequest(Sprintf(VENUE_ORDER_URL, <<venue, stock, Itoa(id)>>), MethodDelete, <<>>, e)
      res == IF r.panic THEN Panicked
             ELSE IF r.err THEN False
             ELSE IF r.isNil THEN Panicked
             ELSE IF r.s.ok # TRUE THEN False
             ELSE IF r.s.open # FALSE THEN False
             ELSE True
  IN Outcome(res, r.requests, r.leaked)

\* ------------------------------------- draft operations calling net/http
\* The part of the draft operations up to the decoding: nothing is decoded
\* (early is TRUE) on a transport error or a status other than 200; the
\* deferred close is registered once the transport reported no error.
DraftGet(url, e) ==
  LET t == Transport(e)
  IN [early |-> t.err \/ e.status # StatusOK,
      requests |-> <<HttpGet(url)>>,
      leaked |-> IF t.err THEN t.opened ELSE t.opened - DeferredClose(t.opened)]

Heartbeat(e) ==
  LET g == DraftGet(HEARTBEAT_URL, e)
      d == Decode(e.body, ZeroStruct, TRUE)
      res == IF g.early THEN False
             ELSE IF d.isNil THEN Panicked
             ELSE IF d.s.ok # TRUE THEN False
             ELSE True
  IN Outcome(res, g.requests, g.leaked)

VenueHeartbeat(venue, e) ==
  LET g == DraftGet(Sprintf(VENUE_HEARTBEAT_URL, <<venue>>), e)
      d == Decode(e.body, ZeroStruct, TRUE)
      res == IF g.early THEN False
             ELSE IF d.isNil THEN Panicked
             ELSE IF d.s.ok # TRUE THEN False
             ELSE True
  IN Outcome(res, g.requests, g.leaked)

VenueStocks(venue, e) ==
  LET g == DraftGet(Sprintf(VENUE_STOCKS_URL, <<venue>>), e)
      d == Decode(e.body, ZeroStruct, FALSE)
      res == IF g.early THEN Nil
             ELSE IF d.err THEN Nil
             ELSE List(d.s.data)
  IN Outcome(res, g.requests, g.leaked)

VenueOrders(venue, stock, e) ==
  LET g == DraftGet(Sprintf(DRAFT_VENUE_ORDERS_URL, <<venue, stock>>), e)
      d == Decode(e.body, ZeroStruct, FALSE)
      res == IF g.early THEN Nil ELSE Ptr(d.s)
  IN Outcome(res, g.requests, g.leaked)

\* ------------------------------------------------------------ the machine
NoEnv == [body |-> OtherBody("none"), status |-> 0, transport |-> "none"]

Init ==
  /\ op = "none"
  /\ args = NoArgs
  /\ env = NoEnv
  /\ requests = <<>>
  /\ result = Ret("none", ZeroStruct)
  /\ openBodies = 0

\* One call of operation o with arguments a while the server behaves as e.
Call(o, a, e, out) ==
  /\ openBodies < MaxOpenBodies
  /\ op' = o
  /\ args' = a
  /\ env' = e
  /\ requests' = out.requests
  /\ result' = out.result
  /\ openBodies' = openBodies + out.leaked

CallPing ==
  \E e \in Envs(StatusResponse) : Call("Ping", NoArgs, e, Ping(e))

CallPingVenue ==
  \E e \in Envs(VenueStatusResponse), v \in Venues :
    Call("PingVenue", [NoArgs EXCEPT !.venue = v], e, PingVenue(v, e))

CallFetchStocks ==
  \E e \in Envs(VenueStocksResponse), v \in Venues :
    Call("FetchStocks", [NoArgs EXCEPT !.venue = v], e, FetchStocks(v, e))

CallFetchOrder ==
  \E e \in Envs(OrderResponse), v \in Venues, s \in Stocks, i \in Ids :
    Call("FetchOrder", [NoArgs EXCEPT !.venue = v, !.stock = s, !.id = i], e,
         FetchOrder(v, s, i, e))

CallFetchOrderbook ==
  \E e \in Envs(OrderbookResponse), v \in Venues, s \in Stocks :
    Call("FetchOrderbook", [NoArgs EXCEPT !.venue = v, !.stock = s], e,
         FetchOrderbook(v, s, e))

CallFetchQuote ==
  \E e \in Envs(QuoteResponse), v \in Venues, s \in Stocks :
    Call("FetchQuote", [NoArgs EXCEPT !.venue = v, !.stock = s], e, FetchQuote(v, s, e))

CallFetchAcctOrders ==
  \E e \in Envs(OrdersStatusResponse), v \in Venues, a \in Accounts :
    Call("FetchAcctOrders", [NoArgs EXCEPT !.venue = v, !.account = a], e,
         FetchAcctOrders(v, a, e))

CallFetchAcctStockOrders ==
  \E e \in Envs(OrdersStatusResponse), v \in Venues, s \in Stocks, a \in Accounts :
    Call("FetchAcctStockOrders", [NoArgs EXCEPT !.venue = v, !.stock = s, !.account = a], e,
         FetchAcctStockOrders(v, s, a, e))

CallPlaceOrder ==
  \E e \in Envs(OrderResponse), v \in Venues, s \in Stocks, o \in OrderRequests :
    Call("PlaceOrder", [NoArgs EXCEPT !.venue = v, !.stock = s, !.order = o], e,
         PlaceOrder(v, s, o, e))

CallCancelOrder ==
  \E e \in Envs(OrderResponse), v \in Venues, s \in Stocks, i \in Ids :
    Call("CancelOrder", [NoArgs EXCEPT !.venue = v, !.stock = s, !.id = i], e,
         CancelOrder(v, s, i, e))

CallHeartbeat ==
  \E e \in Envs(StatusResponse) : Call("Heartbeat", NoArgs, e, Heartbeat(e))

CallVenueHeartbeat ==
  \E e \in Envs(StatusResponse), v \in Venues :
    Call("VenueHeartbeat", [NoArgs EXCEPT !.venue = v], e, VenueHeartbeat(v, e))

CallVenueStocks ==
  \E e \in Envs(DraftStocksResponse), v \in Venues :
    Call("VenueStocks", [NoArgs EXCEPT !.venue = v], e, VenueStocks(v, e))

CallVenueOrders ==
  \E e \in Envs(DraftOrderResponse), v \in Venues, s \in Stocks :
    Call("VenueOrders", [NoArgs EXCEPT !.venue = v, !.stock = s], e, VenueOrders(v, s, e))

Next ==
  \/ CallPing
  \/ CallPingVenue
  \/ CallFetchStocks
  \/ CallFetchOrder
  \/ CallFetchOrderbook
  \/ CallFetchQuote
  \/ CallFetchAcctOrders
  \/ CallFetchAcctStockOrders
  \/ CallPlaceOrder
  \/ CallCancelOrder
  \/ CallHeartbeat
  \/ CallVenueHeartbeat
  \/ CallVenueStocks
  \/ CallVenueOrders

Spec == Init /\ [][Next]_vars

\* ================================================================ claims
PerformRequestOps ==
  {"Ping", "PingVenue", "FetchStocks", "FetchOrder", "FetchOrderbook", "FetchQuote",
   "FetchAcctOrders", "FetchAcctStockOrders", "PlaceOrder", "CancelOrder"}

DraftOps == {"Heartbeat", "VenueHeartbeat", "VenueStocks", "VenueOrders"}

BoolOps == {"Ping", "PingVenue", "CancelOrder", "Heartbeat", "VenueHeartbeat"}

VenueScopedFetches ==
  {"PingVenue", "FetchOrder", "FetchOrderbook", "FetchQuote",
   "FetchAcctOrders", "FetchAcctStockOrders"}

\* false for the boolean operations, nil for the pointer and list operations
FailureValue(o) == IF o \in BoolOps THEN False ELSE Nil

\* The round trip completed and the body is a JSON object of the right shape.
Decoded == env.transport = "ok" /\ env.body.kind = "object"

\* The decoder was run on the body and reported an error.
DecodeFailed ==
  /\ env.transport = "ok"
  /\ env.body.kind \in {"syntaxError", "typeError"}
  /\ op \in DraftOps => env.status = StatusOK

MethodOf(o) ==
  CASE o = "PlaceOrder" -> MethodPost
    [] o = "CancelOrder" -> MethodDelete
    [] OTHER -> MethodGet

\* C1: when the transport call fails with an error and no response, every
\* operation built on PerformRequest returns normally with its failure value
\* (false or nil).
C1_TransportFailureYieldsFailure ==
  (op \in PerformRequestOps /\ env.transport = "connErr") => result = FailureValue(op)

\* C2: for every venue-scoped fetch, when the transport succeeds and the
\* decoded response's venue differs from the venue argument, the operation
\* reports failure, even if ok is true.
C2_VenueMismatchReportsFailure ==
  (op \in VenueScopedFetches /\ Decoded /\ env.body.venue # args.venue)
    => result = FailureValue(op)

\* C3: for every operation built on PerformRequest, when the round trip
\* succeeds and the body decodes with ok false, the operation returns its
\* failure value and none of the decoded data.
C3_NotOkYieldsFailure ==
  (op \in PerformRequestOps /\ Decoded /\ ~env.body.ok) => result = FailureValue(op)

\* Ping against {"ok":false,"error":"down"} with status 200 returned false.
C3_Witness ==
  /\ op = "Ping"
  /\ Decoded
  /\ env.status = StatusOK
  /\ ~env.body.ok
  /\ result = False

\* C4: CancelOrder issues one DELETE request and returns true exactly when
\* the request succeeded, the body decoded, ok is true and open is false; in
\* every other outcome it returns false.
C4_CancelOrderTrueIffClosed ==
  op = "CancelOrder" =>
    LET closed == Decoded /\ env.body.ok /\ ~env.body.open
    IN /\ Len(requests) = 1
       /\ Verb(requests[1]) = MethodDelete
       /\ closed => result = True
       /\ ~closed => result = False

\* C5: FetchOrderbook returns a non-nil OrderbookResponse only if the body
\* decoded with ok true, the requested venue and the requested symbol, and it
\* returns nil whenever the decoded symbol differs from the requested stock.
C5_OrderbookSymbolMustMatch ==
  op = "FetchOrderbook" =>
    /\ result.tag = "ptr" =>
         /\ Decoded
         /\ env.body.ok
         /\ env.body.venue = args.venue
         /\ env.body.symbol = args.stock
         /\ result.s = Populate(env.body)
    /\ (Decoded /\ env.body.symbol # args.stock) => result = Nil

\* FetchOrderbook got ok true, the requested venue and another symbol, and
\* returned nil.
C5_Witness ==
  /\ op = "FetchOrderbook"
  /\ Decoded
  /\ env.body.ok
  /\ env.body.venue = args.venue
  /\ env.body.symbol # args.stock
  /\ result = Nil

\* C6: when the server answers with a non-success status, every operation
\* built on PerformRequest returns its failure value, whatever the body.
C6_BadStatusYieldsFailure ==
  (op \in PerformRequestOps /\ env.transport = "ok" /\ env.status # StatusOK)
    => result = FailureValue(op)

\* C7: when decoding the response body reports an error, every operation
\* (built on PerformRequest or a draft) returns nil, empty or false.
C7_DecodeFailureYieldsFailure ==
  (op \in PerformRequestOps \cup DraftOps /\ DecodeFailed) => result = FailureValue(op)

\* C8: after any sequence of calls, no call has left a response body open.
C8_NoBodyLeftOpen == openBodies = 0

\* A DELETE obtained a response whose body failed to decode, and no body is
\* open afterwards.
C8_Witness ==
  /\ op = "CancelOrder"
  /\ env.transport = "ok"
  /\ env.body.kind = "syntaxError"
  /\ result = False
  /\ openBodies = 0

\* C9: every operation built on PerformRequest sends exactly one request,
\* with the verb of its method; GET and DELETE requests carry no body and
\* the POST request of PlaceOrder carries the JSON of the OrderRequest.
C9_DispatchByMethod ==
  op \in PerformRequestOps =>
    /\ Len(requests) = 1
    /\ Verb(requests[1]) = MethodOf(op)
    /\ Body(requests[1]) = IF op = "PlaceOrder" THEN Marshal(args.order) ELSE <<>>

\* C10: FetchAcctOrders requests /venues/{venue}/accounts/{account}/orders
\* and FetchAcctStockOrders requests
\* /venues/{venue}/accounts/{account}/stocks/{stock}/orders, each argument in
\* its own slot.
C10_AccountUrlsSubstituted ==
  /\ op = "FetchAcctOrders" =>
       Url(requests[1]) = <<"api", "venues", args.venue, "accounts", args.account, "orders">>
  /\ op = "FetchAcctStockOrders" =>
       Url(requests[1]) = <<"api", "venues", args.venue, "accounts", args.account,
                            "stocks", args.stock, "orders">>

====
